---- MODULE Spec2Model ----
(***************************************************************************)
(* Seating-rotation scheduling engine (speed-dating-planner).              *)
(*                                                                         *)
(* The pipeline generate_optimized_planning (src/src/planner.py) is        *)
(* modelled as a state machine: validation, baseline generation (one step  *)
(* per round), local search (one step per sweep), equity enforcement (one  *)
(* step per loop iteration) and final metrics.  Plans live in a heap of    *)
(* objects so that copy.deepcopy, in-place mutation and returning the      *)
(* caller's own object are distinguishable.  The pipeline is called twice  *)
(* in a row with the same arguments, the process-wide random state being   *)
(* carried from the first call to the second.                              *)
(*                                                                         *)
(* A plan is a sequence of rounds, a round a sequence of tables.  The      *)
(* code's 0-based table index t is position t+1 of the sequence.           *)
(*                                                                         *)
(* A table is a Python set of ints.  The local search and the snapshots it *)
(* takes with list(table) depend on the order in which a set is iterated,  *)
(* which in CPython is the order of the entries of the set's hash table    *)
(* and depends on the additions and removals made so far (a removed key    *)
(* leaves a dummy entry that a later key may take).  A table is therefore  *)
(* modelled as that hash table (CPython 3.11, Objects/setobject.c): entry  *)
(* e of the table is position e+1 of slots.                                *)
(***************************************************************************)
EXTENDS Integers, Sequences, FiniteSets, TLC

\* ------------------------------------------------------------------ bounds
\* participants of the configurations explored with constraints or a roster
MaxN == 4
\* participants of the configurations explored without optional arguments
MaxWideN == 8
\* rounds
MaxS == 2

\* Table counts and capacities of the configurations explored.
TableCounts == 0..3
Capacities == 1..3
\* Seeds passed by the caller and process-wide random states before the call.
Seeds == {42, 7}
\* Participants a Together or Separate group may name.
GroupMembers == 0..3
\* Participants named when a Together and a Separate group are given together.
PairedGroupMembers == 0..2

VARIABLES
    entry,           \* the function the caller calls
    config,          \* PlanningConfig: [N, X, x, S]
    seed,            \* seed argument
    constraints,     \* PlanningConstraints: [cohesive_groups, exclusive_groups]
    participants,    \* roster argument: NoParticipants or the set of VIP ids of a full roster
    random_state,    \* the process-wide state of Python's random module
    call,            \* 1 or 2: which of the two consecutive calls is running
    pc,              \* position inside generate_optimized_planning
    heap,            \* Planning objects: sequence of plans, a reference is an index
    super_participants, \* units of the baseline generator
    sessions,        \* rounds generated so far by generate_baseline
    placements,      \* placements made in the round generated last
    warnings,        \* forced placements logged by the baseline: <<round, unit>>
    baseline,        \* reference returned by generate_baseline
    optimized,       \* improve_planning's working copy (reference)
    initial_equity_gap,
    iteration,       \* loop counter of the running phase
    plateau_counter,
    sweep_swaps,     \* swaps applied by the sweep run last
    improved,        \* reference returned by improve_planning
    equitable,       \* enforce_equity's working copy (reference)
    recent_gaps,
    returned,        \* reference returned by enforce_equity, 0 while running
    raised,          \* the error raised by the call, "" when none
    first_result     \* the plan returned by the first call

vars == <<entry, config, seed, constraints, participants, random_state, call, pc, heap,
          super_participants, sessions, placements, warnings, baseline,
          optimized, initial_equity_gap, iteration, plateau_counter,
          sweep_swaps, improved, equitable, recent_gaps, returned, raised,
          first_result>>

\* ----------------------------------------------------------- small helpers
Min2(a, b) == IF a < b THEN a ELSE b
Max2(a, b) == IF a > b THEN a ELSE b

RECURSIVE Ascending(_)
\* the members of a set of ids in ascending order
Ascending(s) ==
    IF s = {} THEN <<>>
    ELSE LET m == CHOOSE a \in s : \A b \in s : a <= b
         IN <<m>> \o Ascending(s \ {m})

SeqRange(q) == {q[i] : i \in 1..Len(q)}
MinOf(s) == CHOOSE a \in s : \A b \in s : a <= b
MaxOf(s) == CHOOSE a \in s : \A b \in s : a >= b

\* the roster argument: participants = None, or a roster of all N participants
\* of which vip_ids are flagged VIP
\* ------------------------------------------------------- Python set objects
\* an entry never used, and the entry of a removed key
EMPTY == -1
DUMMY == -2
PySet_MINSIZE == 8
LINEAR_PROBES == 9
\* perturb >>= PERTURB_SHIFT, with PERTURB_SHIFT = 5
PerturbDivisor == 32

\* set(): an empty small table
PySetNew == [slots |-> [e \in 1..PySet_MINSIZE |-> EMPTY], fill |-> 0]

\* the members of a set object
Members(t) == {t.slots[e] : e \in 1..Len(t.slots)} \ {EMPTY, DUMMY}
\* so->used
Used(t) == Cardinality(Members(t))
RECURSIVE KeysFrom(_, _)
\* the keys held by the entries e.. of a table, in the order of the entries
KeysFrom(slots, e) ==
    IF e > Len(slots) THEN <<>>
    ELSE IF slots[e] >= 0 THEN <<slots[e]>> \o KeysFrom(slots, e + 1)
    ELSE KeysFrom(slots, e + 1)

\* list(t): the keys in the order of the table's entries
ListOf(t) == KeysFrom(t.slots, 1)

RECURSIVE Probe(_, _, _, _, _, _)
\* the probe sequence of set_add_entry and set_lookkey for key: it visits entry
\* i + j, remembers the last dummy seen, and stops at an unused entry or at key
Probe(slots, key, i, j, perturb, freeslot) ==
    LET mask == Len(slots) - 1
        probes == IF i + LINEAR_PROBES <= mask THEN LINEAR_PROBES ELSE 0
        v == slots[i + j + 1]
        fs == IF v = DUMMY THEN i + j ELSE freeslot
    IN IF v = EMPTY THEN [entry |-> i + j, freeslot |-> freeslot, active |-> FALSE]
       ELSE IF v = key THEN [entry |-> i + j, freeslot |-> freeslot, active |-> TRUE]
       ELSE IF j < probes THEN Probe(slots, key, i, j + 1, perturb, fs)
       ELSE Probe(slots, key, (i * 5 + 1 + (perturb \div PerturbDivisor)) % (mask + 1),
                  0, perturb \div PerturbDivisor, fs)

\* hash(key) & mask for a non-negative int
Home(slots, key) == key % Len(slots)

RECURSIVE InsertAllClean(_, _, _)
\* set_insert_clean of the keys l[k..] into a table without dummies
InsertAllClean(slots, l, k) ==
    IF k > Len(l) THEN slots
    ELSE LET r == Probe(slots, l[k], Home(slots, l[k]), 0, l[k], -1)
         IN InsertAllClean([slots EXCEPT ![r.entry + 1] = l[k]], l, k + 1)

RECURSIVE TableSize(_, _)
\* the smallest table size above minused
TableSize(size, minused) ==
    IF size <= minused THEN TableSize(2 * size, minused) ELSE size

\* set_table_resize: the keys are put in a clean table in the order of the entries
SetTableResize(t, minused) ==
    LET newsize == TableSize(PySet_MINSIZE, minused)
    IN IF newsize = PySet_MINSIZE /\ Len(t.slots) = PySet_MINSIZE /\ t.fill = Used(t)
       THEN t
       ELSE [slots |-> InsertAllClean([e \in 1..newsize |-> EMPTY], ListOf(t), 1),
             fill |-> Used(t)]

\* set.add(key): set_add_entry
SetAdd(t, key) ==
    LET r == Probe(t.slots, key, Home(t.slots, key), 0, key, -1)
    IN IF r.active THEN t
       ELSE IF r.freeslot # -1
       THEN [t EXCEPT !.slots[r.freeslot + 1] = key]
       ELSE LET u == [slots |-> [t.slots EXCEPT ![r.entry + 1] = key],
                      fill |-> t.fill + 1]
            IN IF u.fill * 5 < (Len(u.slots) - 1) * 3 THEN u
               ELSE SetTableResize(u, Used(u) * 4)

\* set.remove(key) of a member: the entry becomes a dummy
SetRemove(t, key) ==
    LET r == Probe(t.slots, key, Home(t.slots, key), 0, key, -1)
    IN [t EXCEPT !.slots[r.entry + 1] = DUMMY]

RECURSIVE AddAll(_, _, _)
AddAll(t, l, k) == IF k > Len(l) THEN t ELSE AddAll(SetAdd(t, l[k]), l, k + 1)

\* set(l) for a list l: the keys are added one by one
PySetFromList(l) == AddAll(PySetNew, l, 1)

\* a set built by the caller from the ids s
PySetOf(s) == PySetFromList(Ascending(s))

\* set.update(other) and set.copy() for another set object: set_merge
SetUpdate(t, other) ==
    IF Used(other) = 0 THEN t
    ELSE LET r == IF (t.fill + Used(other)) * 5 >= (Len(t.slots) - 1) * 3
                  THEN SetTableResize(t, (Used(t) + Used(other)) * 2)
                  ELSE t
         IN IF r.fill = 0 /\ Len(r.slots) = Len(other.slots) /\ other.fill = Used(other)
            THEN other
            ELSE IF r.fill = 0
            THEN [slots |-> InsertAllClean(r.slots, ListOf(other), 1), fill |-> Used(other)]
            ELSE AddAll(r, ListOf(other), 1)

\* the member sets of the tables of a round, and of the rounds of a plan
TableSets(tables) == [t \in 1..Len(tables) |-> Members(tables[t])]
PlanSets(plan) == [s \in 1..Len(plan) |-> TableSets(plan[s])]

NoParticipants == [given |-> FALSE, vip_ids |-> {}]
Roster(vip_ids) == [given |-> TRUE, vip_ids |-> vip_ids]

\* ------------------------------------------------------------ validation
\* variant: the total capacity is not compared with N
validate_configWithoutCapacity(cfg) ==
    IF cfg.N < 2 THEN "InvalidConfigurationError"
    ELSE IF cfg.X < 1 THEN "InvalidConfigurationError"
    ELSE IF cfg.x < 2 THEN "InvalidConfigurationError"
    ELSE IF cfg.S < 1 THEN "InvalidConfigurationError"
    ELSE ""

\* validate_config: the error it raises, "" when the configuration is valid
validate_config(cfg) ==
    IF cfg.N < 2 THEN "InvalidConfigurationError"
    ELSE IF cfg.X < 1 THEN "InvalidConfigurationError"
    ELSE IF cfg.x < 2 THEN "InvalidConfigurationError"
    ELSE IF cfg.S < 1 THEN "InvalidConfigurationError"
    ELSE IF cfg.X * cfg.x < cfg.N THEN "InvalidConfigurationError"
    ELSE ""

\* variant: Together groups are not compared with each other
ConstraintErrorsWithoutOverlap(cons, cfg) ==
    LET cg == cons.cohesive_groups
        eg == cons.exclusive_groups
    IN \/ \E i \in 1..Len(cg) : Cardinality(cg[i]) > cfg.x
       \/ \E e \in 1..Len(eg) : \E c \in 1..Len(cg) :
              Cardinality(eg[e] \cap cg[c]) >= 2

\* PlanningConstraints.validate: TRUE iff the list of errors is not empty
ConstraintErrors(cons, cfg) ==
    LET cg == cons.cohesive_groups
        eg == cons.exclusive_groups
    IN \/ \E i \in 1..Len(cg) : Cardinality(cg[i]) > cfg.x
       \/ \E i \in 1..Len(cg) : \E j \in 1..(i-1) : cg[j] \cap cg[i] # {}
       \/ \E e \in 1..Len(eg) : \E c \in 1..Len(cg) :
              Cardinality(eg[e] \cap cg[c]) >= 2

\* ------------------------------------------------------ baseline generator
\* _create_super_participants
CreateSuperParticipants(N, cons) ==
    IF cons.cohesive_groups = <<>>
    THEN [i \in 1..N |-> PySetOf({i - 1})]
    ELSE LET assigned == UNION SeqRange(cons.cohesive_groups)
             singles == Ascending((0..(N-1)) \ assigned)
         IN [i \in 1..Len(cons.cohesive_groups) |->
                SetUpdate(PySetNew, PySetOf(cons.cohesive_groups[i]))]
            \o [i \in 1..Len(singles) |-> PySetOf({singles[i]})]

\* variant: a rotation offset that also depends on how many objects the process
\* has allocated so far
StrideFromAllocations(session_id, n) ==
    IF n > 1 THEN (session_id * 17 + 1 + Len(heap)) % n ELSE 1

\* rotation offset of round session_id over n units
Stride(session_id, n) == IF n > 1 THEN (session_id * 17 + 1) % n ELSE 1

\* variant: super_participants[-stride:] + super_participants[:-stride]
RotateRight(units, stride) ==
    SubSeq(units, Len(units) - Min2(stride, Len(units)) + 1, Len(units))
        \o SubSeq(units, 1, Len(units) - Min2(stride, Len(units)))

\* super_participants[stride:] + super_participants[:stride]
Rotate(units, stride) ==
    SubSeq(units, stride + 1, Len(units)) \o SubSeq(units, 1, Min2(stride, Len(units)))

\* _violates_exclusive_constraint
ViolatesExclusiveConstraint(table, new_participants, cons) ==
    \E i \in 1..Len(cons.exclusive_groups) :
        LET g == cons.exclusive_groups[i]
        IN /\ table \cap g # {}
           /\ new_participants \cap g # {}
           /\ table \cap g # new_participants \cap g

\* variant: the probing loop gives up one table early
ProbeLimitShort(cfg) == cfg.X - 1

\* the attempts bound of the probing loop
ProbeLimit(cfg) == cfg.X

RECURSIVE ProbeTable(_, _, _, _, _, _)
\* the while loop of _assign_tables_with_constraints: [table_id, attempts] on exit
ProbeTable(tables, sp, cfg, cons, table_id, attempts) ==
    IF ViolatesExclusiveConstraint(Members(tables[table_id + 1]), Members(sp), cons)
       /\ attempts < ProbeLimit(cfg)
    THEN ProbeTable(tables, sp, cfg, cons, (table_id + 1) % cfg.X, attempts + 1)
    ELSE [table_id |-> table_id, attempts |-> attempts]

\* variant: consecutive units are dealt two by two, table_id = (idx // 2) % X
PlaceUnitByTwo(tables, sp, idx, cfg, cons) ==
    IF cons.exclusive_groups # <<>>
    THEN LET r == ProbeTable(tables, sp, cfg, cons, (idx \div 2) % cfg.X, 0)
         IN [table_id |-> r.table_id, forced |-> r.attempts >= cfg.X]
    ELSE [table_id |-> (idx \div 2) % cfg.X, forced |-> FALSE]

\* the body of the for loop: where unit idx goes and whether a warning is logged
PlaceUnit(tables, sp, idx, cfg, cons) ==
    IF cons.exclusive_groups # <<>>
    THEN LET r == ProbeTable(tables, sp, cfg, cons, idx % cfg.X, 0)
         IN [table_id |-> r.table_id, forced |-> r.attempts >= cfg.X]
    ELSE [table_id |-> idx % cfg.X, forced |-> FALSE]

RECURSIVE AssignFrom(_, _, _, _, _, _)
AssignFrom(units, idx, tables, log, cfg, cons) ==
    IF idx >= Len(units) THEN [tables |-> tables, log |-> log]
    ELSE LET sp == units[idx + 1]
             where == PlaceUnit(tables, sp, idx, cfg, cons)
             t == where.table_id + 1
         IN AssignFrom(units, idx + 1,
                       [tables EXCEPT ![t] = SetUpdate(tables[t], sp)],
                       Append(log, [sp |-> Members(sp), table_id |-> where.table_id,
                                    before |-> TableSets(tables),
                                    forced |-> where.forced]),
                       cfg, cons)

\* _assign_tables_with_constraints: the tables of one round and its placements
AssignTablesWithConstraints(units, cfg, cons) ==
    AssignFrom(units, 0, [t \in 1..cfg.X |-> PySetNew], <<>>, cfg, cons)

\* ------------------------------------------------ meeting history, metrics
\* the normalised pairs (min, max) of the participants of one table
TablePairs(members) == {pr \in members \X members : pr[1] < pr[2]}

\* variant: only the first round is recorded
ComputeMeetingHistoryFirstRound(plan) ==
    UNION {TablePairs(Members(plan[s][t])) : s \in 1..Min2(1, Len(plan)), t \in 1..Len(plan[1])}

\* compute_meeting_history
ComputeMeetingHistory(plan) ==
    UNION {TablePairs(Members(plan[s][t])) : s \in 1..Len(plan), t \in 1..Len(plan[1])}

\* variant: only the tables of the first round are counted
PairCountFirstRound(plan, pr) ==
    Cardinality({t \in 1..Len(plan[1]) : {pr[1], pr[2]} \subseteq Members(plan[1][t])})

\* pair_counts[pair] of compute_metrics
PairCount(plan, pr) ==
    LET hits == {st \in (1..Len(plan)) \X (1..Len(plan[1])) :
                    {pr[1], pr[2]} \subseteq Members(plan[st[1]][st[2]])}
    IN Cardinality(hits)

\* compute_metrics raises IndexError: unique_meetings_per_person has N entries
\* and a pair of the history names a participant id outside 0..N-1
ComputeMetricsRaises(plan, cfg) ==
    \E pr \in ComputeMeetingHistory(plan) : pr[2] >= cfg.N

\* compute_metrics (the mean and the VIP split are not modelled)
ComputeMetrics(plan, cfg) ==
    LET meeting_history == ComputeMeetingHistory(plan)
        per_person == [p \in 0..(cfg.N - 1) |->
                          Cardinality({pr \in meeting_history : pr[1] = p \/ pr[2] = p})]
        counts == {per_person[p] : p \in 0..(cfg.N - 1)}
        min_unique == IF counts = {} THEN 0 ELSE MinOf(counts)
        max_unique == IF counts = {} THEN 0 ELSE MaxOf(counts)
    IN [total_unique_pairs |-> Cardinality(meeting_history),
        total_repeat_pairs |->
            Cardinality({pr \in meeting_history : PairCount(plan, pr) > 1}),
        unique_meetings_per_person |-> per_person,
        min_unique |-> min_unique,
        max_unique |-> max_unique,
        equity_gap |-> max_unique - min_unique]

\* ----------------------------------------------------------- swap evaluator
\* _count_table_repeats
CountTableRepeats(members, met_pairs) == Cardinality(TablePairs(members) \cap met_pairs)

\* evaluate_swap raises ValueError: a participant is not at the stated table
EvaluateSwapRaises(plan, session_id, table1_id, p1, table2_id, p2) ==
    \/ p1 \notin Members(plan[session_id + 1][table1_id + 1])
    \/ p2 \notin Members(plan[session_id + 1][table2_id + 1])

\* variant: repeats_before - repeats_after
EvaluateSwapReversed(plan, session_id, table1_id, p1, table2_id, p2, met_pairs) ==
    LET table1 == Members(plan[session_id + 1][table1_id + 1])
        table2 == Members(plan[session_id + 1][table2_id + 1])
        repeats_before == CountTableRepeats(table1, met_pairs)
                          + CountTableRepeats(table2, met_pairs)
        new_table1 == (table1 \ {p1}) \cup {p2}
        new_table2 == (table2 \ {p2}) \cup {p1}
        repeats_after == CountTableRepeats(new_table1, met_pairs)
                         + CountTableRepeats(new_table2, met_pairs)
    IN repeats_before - repeats_after

\* evaluate_swap: the delta it returns when it does not raise
EvaluateSwap(plan, session_id, table1_id, p1, table2_id, p2, met_pairs) ==
    LET table1 == Members(plan[session_id + 1][table1_id + 1])
        table2 == Members(plan[session_id + 1][table2_id + 1])
        repeats_before == CountTableRepeats(table1, met_pairs)
                          + CountTableRepeats(table2, met_pairs)
        new_table1 == (table1 \ {p1}) \cup {p2}
        new_table2 == (table2 \ {p2}) \cup {p1}
        repeats_after == CountTableRepeats(new_table1, met_pairs)
                         + CountTableRepeats(new_table2, met_pairs)
    IN repeats_after - repeats_before

\* ------------------------------------------------------ constraint validator
\* variant: the Together groups are not looked at
SplitsCohesiveGroupNever(table1_after, p1, table2_after, p2, cons) == FALSE

\* the Together half of validate_swap_constraints / _swap_violates_constraints
SplitsCohesiveGroup(table1_after, p1, table2_after, p2, cons) ==
    \E i \in 1..Len(cons.cohesive_groups) :
        LET g == cons.cohesive_groups[i]
        IN \/ (p1 \in g /\ ~(g \subseteq table2_after))
           \/ (p2 \in g /\ ~(g \subseteq table1_after))

\* variant: the Separate groups are not looked at
JoinsExclusiveGroupNever(table1_after, table2_after, cons) == FALSE

\* the Separate half of validate_swap_constraints / _swap_violates_constraints
JoinsExclusiveGroup(table1_after, table2_after, cons) ==
    \E i \in 1..Len(cons.exclusive_groups) :
        LET g == cons.exclusive_groups[i]
        IN \/ Cardinality(table1_after \cap g) >= 2
           \/ Cardinality(table2_after \cap g) >= 2

\* validate_swap_constraints (equity.py) and _swap_violates_constraints
\* (improvement.py), which have the same body: TRUE iff the swap is forbidden
ValidateSwapConstraints(tables, table1_id, p1, table2_id, p2, cons) ==
    LET table1_after == (Members(tables[table1_id + 1]) \ {p1}) \cup {p2}
        table2_after == (Members(tables[table2_id + 1]) \ {p2}) \cup {p1}
    IN \/ SplitsCohesiveGroup(table1_after, p1, table2_after, p2, cons)
       \/ JoinsExclusiveGroup(table1_after, table2_after, cons)

\* ------------------------------------------------------------ local search
\* variant: p2 joins table 1 but p1 is not seated at table 2
ApplySwapOneWay(plan, session_id, table1_id, p1, table2_id, p2) ==
    LET tables == plan[session_id + 1]
        t1 == SetAdd(SetRemove(tables[table1_id + 1], p1), p2)
        t2 == SetRemove(tables[table2_id + 1], p2)
    IN [plan EXCEPT ![session_id + 1] =
            [tables EXCEPT ![table1_id + 1] = t1, ![table2_id + 1] = t2]]

\* _apply_swap, and the four set operations of _try_swap_participants
ApplySwap(plan, session_id, table1_id, p1, table2_id, p2) ==
    LET tables == plan[session_id + 1]
        t1 == SetAdd(SetRemove(tables[table1_id + 1], p1), p2)
        t2 == SetAdd(SetRemove(tables[table2_id + 1], p2), p1)
    IN [plan EXCEPT ![session_id + 1] =
            [tables EXCEPT ![table1_id + 1] = t1, ![table2_id + 1] = t2]]

\* variant: evaluate_swap tries the swap on the tables of the plan it is given
EvaluateSwapEffectInPlace(plan, session_id, table1_id, p1, table2_id, p2) ==
    IF EvaluateSwapRaises(plan, session_id, table1_id, p1, table2_id, p2) THEN plan
    ELSE ApplySwap(plan, session_id, table1_id, p1, table2_id, p2)

\* the plan object after a call of evaluate_swap: new_table1 and new_table2 are
\* new sets, the tables of the plan are only read
EvaluateSwapEffect(plan, session_id, table1_id, p1, table2_id, p2) == plan

\* the try block of _improve_session for one pair (p1, p2)
TryPair(st, session_id, table1_id, p1, table2_id, p2, met_pairs, cons) ==
    IF ValidateSwapConstraints(st.plan[session_id + 1], table1_id, p1, table2_id, p2, cons)
    THEN st
    ELSE LET evaluated == EvaluateSwapEffect(st.plan, session_id, table1_id, p1,
                                             table2_id, p2)
         IN IF EvaluateSwapRaises(st.plan, session_id, table1_id, p1, table2_id, p2)
            THEN [st EXCEPT !.plan = evaluated]
            ELSE IF EvaluateSwap(st.plan, session_id, table1_id, p1, table2_id, p2,
                                 met_pairs) < 0
            THEN [plan |-> ApplySwap(evaluated, session_id, table1_id, p1, table2_id, p2),
                  swaps |-> st.swaps + 1]
            ELSE [st EXCEPT !.plan = evaluated]

RECURSIVE PairLoop(_, _, _, _, _, _, _, _, _, _)
\* the loops over p1 and p2 for one pair of tables, on the snapshots l1 and l2
PairLoop(st, session_id, table1_id, table2_id, l1, l2, i, j, met_pairs, cons) ==
    IF i > Len(l1) THEN st
    ELSE IF j > Len(l2)
    THEN PairLoop(st, session_id, table1_id, table2_id, l1, l2, i + 1, 1, met_pairs, cons)
    ELSE PairLoop(TryPair(st, session_id, table1_id, l1[i], table2_id, l2[j], met_pairs, cons),
                  session_id, table1_id, table2_id, l1, l2, i, j + 1, met_pairs, cons)

RECURSIVE TableLoop(_, _, _, _, _, _)
\* the loops over table1_id < table2_id
TableLoop(st, session_id, table1_id, table2_id, met_pairs, cons) ==
    LET n == Len(st.plan[session_id + 1])
    IN IF table1_id >= n THEN st
       ELSE IF table2_id >= n
       THEN TableLoop(st, session_id, table1_id + 1, table1_id + 2, met_pairs, cons)
       ELSE TableLoop(
                PairLoop(st, session_id, table1_id, table2_id,
                         ListOf(st.plan[session_id + 1][table1_id + 1]),
                         ListOf(st.plan[session_id + 1][table2_id + 1]),
                         1, 1, met_pairs, cons),
                session_id, table1_id, table2_id + 1, met_pairs, cons)

\* _improve_session: the plan after the pass and the swaps applied so far
ImproveSession(st, session_id, met_pairs, cons) ==
    TableLoop(st, session_id, 0, 1, met_pairs, cons)

RECURSIVE SessionLoop(_, _, _, _)
SessionLoop(st, session_id, met_pairs, cons) ==
    IF session_id >= Len(st.plan) THEN st
    ELSE SessionLoop(ImproveSession(st, session_id, met_pairs, cons),
                     session_id + 1, met_pairs, cons)

\* variant: an iteration passes over one round only, the rounds taking turns
SweepOneRound(plan, cons) ==
    IF Len(plan) = 0 THEN [plan |-> plan, swaps |-> 0]
    ELSE ImproveSession([plan |-> plan, swaps |-> 0], (iteration + 1) % Len(plan),
                        ComputeMeetingHistory(plan), cons)

\* one iteration of improve_planning's for loop: history, then every round
Sweep(plan, cons) ==
    SessionLoop([plan |-> plan, swaps |-> 0], 0, ComputeMeetingHistory(plan), cons)

\* plateau_threshold of improve_planning
plateau_threshold == 5

\* variant: every sweep counts towards the plateau
CountPlateauEverySweep(counter, improvements_found) == counter + 1

\* plateau_counter after a sweep that applied improvements_found swaps
CountPlateau(counter, improvements_found) ==
    IF improvements_found > 0 THEN 0 ELSE counter + 1

\* max_iterations chosen by generate_optimized_planning
MaxIter(cfg) == IF cfg.N < 20 THEN 50 ELSE 20

\* variant: improve_planning returns its copy whatever the gaps
ImproveResultKeepsCopy(planning_ref, optimized_ref, initial_gap, final_gap) ==
    optimized_ref

\* what improve_planning returns: its own copy, or the caller's object
ImproveResult(planning_ref, optimized_ref, initial_gap, final_gap) ==
    IF final_gap > initial_gap THEN planning_ref ELSE optimized_ref

\* --------------------------------------------------------- equity enforcer
max_iterations_safety == 1000
cycle_detection_window == 10
\* default of enforce_equity's vip_max_advantage, which the pipeline never overrides
vip_max_advantage == 2

\* _find_over_exposed / _find_under_exposed: ids in ascending order
FindOverExposed(metrics) ==
    Ascending({p \in DOMAIN metrics.unique_meetings_per_person :
                  metrics.unique_meetings_per_person[p] = metrics.max_unique})
FindUnderExposed(metrics) ==
    Ascending({p \in DOMAIN metrics.unique_meetings_per_person :
                  metrics.unique_meetings_per_person[p] = metrics.min_unique})

\* [p for p in l if p in keep]
Filter(l, keep) == Ascending({l[i] : i \in {k \in 1..Len(l) : l[k] \in keep}})

\* variant: the roster is ignored
SwapPrioritiesStandard(metrics, roster, N) ==
    << <<FindUnderExposed(metrics), FindOverExposed(metrics)>> >>

\* swap_priorities of enforce_equity: a sequence of <<under_list, over_list>>
SwapPriorities(metrics, roster, N) ==
    LET over_exposed == FindOverExposed(metrics)
        under_exposed == FindUnderExposed(metrics)
        standard == << <<under_exposed, over_exposed>> >>
    IN IF ~roster.given THEN standard
       ELSE LET vip_ids == roster.vip_ids
                all == 0..(N - 1)
                upp == metrics.unique_meetings_per_person
                vip_meetings == {upp[p] : p \in vip_ids}
                non_vip_meetings == {upp[p] : p \in all \ vip_ids}
                vip_advantage_ok ==
                    IF vip_meetings # {} /\ non_vip_meetings # {}
                    THEN ~(MinOf(vip_meetings) - MinOf(non_vip_meetings) >= vip_max_advantage)
                    ELSE TRUE
                over_vip == Filter(over_exposed, vip_ids)
                over_regular == Filter(over_exposed, all \ vip_ids)
                under_vip == Filter(under_exposed, vip_ids)
                under_regular == Filter(under_exposed, all \ vip_ids)
            IN IF vip_advantage_ok /\ under_vip # <<>>
               THEN << <<under_vip, over_regular>>,
                       <<under_vip, over_vip>>,
                       <<under_regular, over_exposed>> >>
               ELSE standard

\* the index of the table holding p, -1 for None
TableOf(tables, p) ==
    LET holding == {t \in 1..Len(tables) : p \in Members(tables[t])}
    IN IF holding = {} THEN -1 ELSE MaxOf(holding) - 1

\* equity_improvement of _try_swap_participants
EquityImprovement(tables, table_over_id, p_over, table_under_id, p_under, met_pairs) ==
    LET table_over == Members(tables[table_over_id + 1])
        table_under == Members(tables[table_under_id + 1])
        Unmet(p, others) ==
            Cardinality({q \in others : <<Min2(p, q), Max2(p, q)>> \notin met_pairs})
        over_unique_lost == Unmet(p_over, table_over \ {p_over})
        over_unique_gained == Unmet(p_over, table_under \ {p_under})
        under_unique_lost == Unmet(p_under, table_under \ {p_under})
        under_unique_gained == Unmet(p_under, table_over \ {p_over})
        over_delta == over_unique_gained - over_unique_lost
        under_delta == under_unique_gained - under_unique_lost
    IN under_delta - over_delta

\* over_unique_lost and under_unique_lost of _try_swap_participants
UniqueLost(tables, table_over_id, p_over, table_under_id, p_under, met_pairs) ==
    LET table_over == Members(tables[table_over_id + 1])
        table_under == Members(tables[table_under_id + 1])
        Unmet(p, others) ==
            Cardinality({q \in others : <<Min2(p, q), Max2(p, q)>> \notin met_pairs})
    IN [over |-> Unmet(p_over, table_over \ {p_over}),
        under |-> Unmet(p_under, table_under \ {p_under})]

RECURSIVE TrySwapFrom(_, _, _, _, _, _)
\* the loop over the rounds of _try_swap_participants, from round session_id on
TrySwapFrom(plan, session_id, p_over, p_under, met_pairs, cons) ==
    IF session_id >= Len(plan) THEN [found |-> FALSE, plan |-> plan]
    ELSE LET tables == plan[session_id + 1]
             table_over_id == TableOf(tables, p_over)
             table_under_id == TableOf(tables, p_under)
         IN IF /\ table_over_id # -1
               /\ table_under_id # -1
               /\ table_over_id # table_under_id
               /\ EquityImprovement(tables, table_over_id, p_over,
                                    table_under_id, p_under, met_pairs) > 0
               /\ ~ValidateSwapConstraints(tables, table_over_id, p_over,
                                           table_under_id, p_under, cons)
            THEN [found |-> TRUE,
                  plan |-> ApplySwap(plan, session_id, table_over_id, p_over,
                                     table_under_id, p_under)]
            ELSE TrySwapFrom(plan, session_id + 1, p_over, p_under, met_pairs, cons)

\* _try_swap_participants
TrySwapParticipants(plan, p_over, p_under, met_pairs, cons) ==
    TrySwapFrom(plan, 0, p_over, p_under, met_pairs, cons)

RECURSIVE SearchSwap(_, _, _, _, _, _, _)
\* the three nested loops of enforce_equity over priorities, p_under and p_over
SearchSwap(plan, priorities, k, i, j, met_pairs, cons) ==
    IF k > Len(priorities) THEN [found |-> FALSE, plan |-> plan]
    ELSE IF i > Len(priorities[k][1])
    THEN SearchSwap(plan, priorities, k + 1, 1, 1, met_pairs, cons)
    ELSE IF j > Len(priorities[k][2])
    THEN SearchSwap(plan, priorities, k, i + 1, 1, met_pairs, cons)
    ELSE LET r == TrySwapParticipants(plan, priorities[k][2][j], priorities[k][1][i],
                                      met_pairs, cons)
         IN IF r.found THEN r
            ELSE SearchSwap(plan, priorities, k, i, j + 1, met_pairs, cons)

\* recent_gaps after append and pop(0)
PushGap(gaps, g) ==
    LET a == Append(gaps, g)
    IN IF Len(a) > cycle_detection_window THEN Tail(a) ELSE a

\* variant: only a window holding a single value counts as oscillation
CycleDetectedConstantOnly(gaps) ==
    /\ Len(gaps) >= cycle_detection_window
    /\ Cardinality(SeqRange(gaps)) <= 1

\* the oscillation test on recent_gaps
CycleDetected(gaps) ==
    /\ Len(gaps) >= cycle_detection_window
    /\ Cardinality(SeqRange(gaps)) <= 2
    /\ Cardinality({i \in 1..Len(gaps) : gaps[i] = gaps[1]}) >= 3

\* variant: giving up (cap, oscillation, no swap) is reported as an error
EquityOutcomeFailureRaises(iteration_, metrics_raise, gap, gaps, swap_found) ==
    IF iteration_ >= max_iterations_safety THEN "RuntimeError"
    ELSE IF metrics_raise THEN "IndexError"
    ELSE IF gap <= 1 THEN "equitable"
    ELSE IF CycleDetected(gaps) \/ ~swap_found THEN "RuntimeError"
    ELSE "swap"

\* how a pass of enforce_equity's while loop ends: the cap is reached
\* ("capped"), compute_metrics raises (the error's name), the gap is at most 1
\* ("equitable"), oscillation is detected or no swap is found ("stuck"), or a
\* swap is applied ("swap"); all but the error and the swap return the plan
EquityOutcome(iteration_, metrics_raise, gap, gaps, swap_found) ==
    IF iteration_ >= max_iterations_safety THEN "capped"
    ELSE IF metrics_raise THEN "IndexError"
    ELSE IF gap <= 1 THEN "equitable"
    ELSE IF CycleDetected(gaps) \/ ~swap_found THEN "stuck"
    ELSE "swap"

\* ------------------------------------------------------------------- heap
\* copy.deepcopy of a set: set(list(t))
CopyTable(t) == PySetFromList(ListOf(t))

\* variant: no copy is made, the caller's object is worked on
DeepCopyAlias(h, ref) == [heap |-> h, ref |-> ref]

\* copy.deepcopy of a Planning: a new object whose tables are new sets
DeepCopy(h, ref) ==
    [heap |-> Append(h, [s \in 1..Len(h[ref]) |->
                            [t \in 1..Len(h[ref][s]) |-> CopyTable(h[ref][s][t])]]),
     ref |-> Len(h) + 1]

\* random.seed(seed): the process-wide state after the call
SeedRandom(s) == s

\* variant: local search is skipped only above 50 participants
SkipsLocalSearchAbove(cfg) == cfg.N > 50

\* the pipeline's test for handing the baseline straight to enforce_equity
SkipsLocalSearch(cfg) == cfg.N >= 50

\* ----------------------------------------------------------------- inputs
\* the two public functions a caller starts from
Entries == {"generate_optimized_planning", "generate_baseline"}
\* where a call of the entry function starts
EntryPoint(e) == IF e = "generate_baseline" THEN "baseline" ELSE "validate"
Configs == [N : 1..MaxN, X : TableCounts, x : Capacities, S : 0..MaxS]
WideConfigs == [N : (MaxN + 1)..MaxWideN, X : TableCounts, x : Capacities, S : 0..MaxS]
\* the smallest number of participants for which the pipeline skips local
\* search, seated in pairs for one round
LargeConfigs == {[N |-> 50, X |-> 25, x |-> 2, S |-> 1]}
\* a number of participants that divides the multiplier 17 of the rotation offset
StrideConfigs == {[N |-> 17, X |-> 2, x |-> 9, S |-> 2]}

\* the groups a caller may name: at least two ids (GroupConstraint.__post_init__);
\* nothing compares the ids with N
GroupPool(ids) == {g \in SUBSET ids : Cardinality(g) >= 2}
GroupLists(ids) == {<<>>} \cup {<<g>> : g \in GroupPool(ids)}
\* two Together groups of two participants each, disjoint or not
TogetherPairs(ids) ==
    LET pairs == {g \in GroupPool(ids) : Cardinality(g) = 2}
    IN {<<g, h>> : g \in pairs, h \in pairs}
\* the constraint sets tried: Together groups only, Separate groups only, or
\* one group of each kind over the ids of PairedGroupMembers
ConstraintSets ==
    [cohesive_groups : GroupLists(GroupMembers) \cup TogetherPairs(GroupMembers),
     exclusive_groups : {<<>>}]
    \cup [cohesive_groups : {<<>>}, exclusive_groups : GroupLists(GroupMembers)]
    \cup [cohesive_groups : GroupLists(PairedGroupMembers),
          exclusive_groups : GroupLists(PairedGroupMembers)]
NoConstraints == [cohesive_groups |-> <<>>, exclusive_groups |-> <<>>]
\* the rosters tried: none, or a full roster whose VIPs are participant 0,
\* participant 1 or both
Rosters(N) == {NoParticipants, Roster({0}), Roster({1}), Roster({0, 1})}
\* the rosters tried with the larger numbers of participants
WideRosters == {NoParticipants, Roster({0}), Roster({4})}
\* participants 0 and 1 Together and all the others in one Separate group
SplitConstraints(N) ==
    [cohesive_groups |-> <<{0, 1}>>, exclusive_groups |-> <<2..(N - 1)>>]
\* the arguments tried for every N that leaves two other participants
SplitArguments(N) ==
    IF N >= 4 THEN {<<SplitConstraints(N), NoParticipants>>} ELSE {}
\* the optional arguments: any constraint set without a roster, or a roster
\* without constraints
OptionalArguments(N) ==
    (ConstraintSets \X {NoParticipants}) \cup ({NoConstraints} \X Rosters(N))
        \cup SplitArguments(N)
\* the Separate groups tried with the larger numbers of participants:
\* participants 0 and 2, or participant 1 and the last participant
WideSeparatePairs(N) == {{0, 2}, {1, N - 1}}
\* and the first four participants in one Separate group
WideSeparateGroups(N) == WideSeparatePairs(N) \cup {0..3}
\* the optional arguments tried with the larger numbers of participants
WideArguments(N) ==
    ({NoConstraints} \X WideRosters)
        \cup {<<[cohesive_groups |-> <<>>, exclusive_groups |-> <<g>>], NoParticipants>> :
                  g \in WideSeparateGroups(N)}
        \cup SplitArguments(N)

\* ---------------------------------------------------------------- actions
Init ==
    /\ entry \in Entries
    /\ config \in Configs \cup WideConfigs \cup LargeConfigs \cup StrideConfigs
    /\ seed = 42
    /\ \E args \in (IF config \in Configs THEN OptionalArguments(config.N)
                    ELSE IF config \in WideConfigs THEN WideArguments(config.N)
                    ELSE {<<NoConstraints, NoParticipants>>}) :
           /\ constraints = args[1]
           /\ participants = args[2]
    \* generate_baseline takes no roster
    /\ entry = "generate_baseline" => participants = NoParticipants
    \* the configuration of StrideConfigs is given to generate_baseline
    /\ config \in StrideConfigs => entry = "generate_baseline"
    /\ random_state = 0
    /\ call = 1
    /\ pc = EntryPoint(entry)
    /\ heap = <<>>
    /\ super_participants = <<>>
    /\ sessions = <<>>
    /\ placements = <<>>
    /\ warnings = {}
    /\ baseline = 0
    /\ optimized = 0
    /\ initial_equity_gap = 0
    /\ iteration = 0
    /\ plateau_counter = 0
    /\ sweep_swaps = 0
    /\ improved = 0
    /\ equitable = 0
    /\ recent_gaps = <<>>
    /\ returned = 0
    /\ raised = ""
    /\ first_result = [done |-> FALSE, raised |-> "", seed |-> 0, plan |-> <<>>]

inputs == <<entry, config, constraints, participants>>
baseline_locals == <<super_participants, sessions, placements, warnings, baseline>>
improve_locals == <<optimized, initial_equity_gap, plateau_counter, sweep_swaps, improved>>
equity_locals == <<equitable, recent_gaps, returned>>

\* generate_optimized_planning, phase 0: configuration, then constraints
Validate ==
    /\ pc = "validate"
    /\ LET err == IF validate_config(config) # "" THEN validate_config(config)
                  ELSE IF ConstraintErrors(constraints, config)
                  THEN "InvalidConfigurationError"
                  ELSE ""
       IN /\ raised' = err
          /\ pc' = IF err # "" THEN "raised" ELSE "baseline"
    /\ UNCHANGED <<inputs, seed, random_state, call, heap, baseline_locals,
                   improve_locals, iteration, equity_locals, first_result>>

\* generate_baseline up to the loop: validation again, seeding, the units
BaselineStart ==
    /\ pc = "baseline"
    /\ IF validate_config(config) # "" \/ ConstraintErrors(constraints, config)
       THEN /\ raised' = "InvalidConfigurationError"
            /\ pc' = "raised"
            /\ UNCHANGED <<random_state, super_participants>>
       ELSE /\ random_state' = SeedRandom(seed)
            /\ super_participants' = CreateSuperParticipants(config.N, constraints)
            /\ pc' = "rounds"
            /\ UNCHANGED raised
    /\ sessions' = <<>>
    /\ UNCHANGED <<inputs, seed, call, heap, placements, warnings, baseline,
                   improve_locals, iteration, equity_locals, first_result>>

\* one iteration of generate_baseline's loop over session_id
BaselineRound ==
    /\ pc = "rounds"
    /\ Len(sessions) < config.S
    /\ LET session_id == Len(sessions)
           stride == Stride(session_id, Len(super_participants))
           rotated == Rotate(super_participants, stride)
           r == AssignTablesWithConstraints(rotated, config, constraints)
       IN /\ sessions' = Append(sessions, r.tables)
          /\ placements' = r.log
          /\ warnings' = warnings \cup
                 {<<session_id, r.log[i].sp>> : i \in {k \in 1..Len(r.log) : r.log[k].forced}}
    /\ UNCHANGED <<inputs, seed, random_state, call, pc, heap, super_participants,
                   baseline, improve_locals, iteration, equity_locals, raised,
                   first_result>>

\* generate_baseline returns the Planning
BaselineReturn ==
    /\ pc = "rounds"
    /\ Len(sessions) >= config.S
    /\ heap' = Append(heap, sessions)
    /\ baseline' = Len(heap) + 1
    /\ pc' = IF entry = "generate_baseline" THEN "baseline_done" ELSE "baseline_metrics"
    /\ UNCHANGED <<inputs, seed, random_state, call, super_participants, sessions,
                   placements, warnings, improve_locals, iteration, equity_locals,
                   raised, first_result>>

\* the pipeline computes the baseline metrics, then skips local search for N >= 50
BaselineMetrics ==
    /\ pc = "baseline_metrics"
    /\ IF ComputeMetricsRaises(heap[baseline], config)
       THEN /\ raised' = "IndexError"
            /\ pc' = "raised"
            /\ UNCHANGED improved
       ELSE IF SkipsLocalSearch(config)
       THEN /\ improved' = baseline
            /\ pc' = "equity"
            /\ UNCHANGED raised
       ELSE /\ pc' = "improve"
            /\ UNCHANGED <<improved, raised>>
    /\ UNCHANGED <<inputs, seed, random_state, call, heap, baseline_locals, optimized,
                   initial_equity_gap, plateau_counter, sweep_swaps, iteration,
                   equity_locals, first_result>>

\* improve_planning up to its loop: the private copy and the initial gap
ImproveStart ==
    /\ pc = "improve"
    /\ LET c == DeepCopy(heap, baseline)
       IN /\ heap' = c.heap
          /\ optimized' = c.ref
    /\ IF ComputeMetricsRaises(heap[baseline], config)
       THEN /\ raised' = "IndexError"
            /\ pc' = "raised"
            /\ UNCHANGED initial_equity_gap
       ELSE /\ initial_equity_gap' = ComputeMetrics(heap[baseline], config).equity_gap
            /\ pc' = "sweep"
            /\ UNCHANGED raised
    /\ plateau_counter' = 0
    /\ iteration' = 0
    /\ sweep_swaps' = 0
    /\ UNCHANGED <<inputs, seed, random_state, call, baseline_locals, improved,
                   equity_locals, first_result>>

\* one iteration of improve_planning's loop
ImproveSweep ==
    /\ pc = "sweep"
    /\ iteration < MaxIter(config)
    /\ plateau_counter < plateau_threshold
    /\ LET r == Sweep(heap[optimized], constraints)
       IN /\ heap' = [heap EXCEPT ![optimized] = r.plan]
          /\ sweep_swaps' = r.swaps
          /\ plateau_counter' = CountPlateau(plateau_counter, r.swaps)
    /\ iteration' = iteration + 1
    /\ UNCHANGED <<inputs, seed, random_state, call, pc, baseline_locals, optimized,
                   initial_equity_gap, improved, equity_locals, raised, first_result>>

\* improve_planning after its loop: the non-regression test and the return
ImproveReturn ==
    /\ pc = "sweep"
    /\ (iteration >= MaxIter(config) \/ plateau_counter >= plateau_threshold)
    /\ improved' = ImproveResult(baseline, optimized, initial_equity_gap,
                                 ComputeMetrics(heap[optimized], config).equity_gap)
    /\ pc' = "equity"
    /\ UNCHANGED <<inputs, seed, random_state, call, heap, baseline_locals, optimized,
                   initial_equity_gap, plateau_counter, sweep_swaps, iteration,
                   equity_locals, raised, first_result>>

\* enforce_equity up to its loop
EquityStart ==
    /\ pc = "equity"
    /\ LET c == DeepCopy(heap, improved)
       IN /\ heap' = c.heap
          /\ equitable' = c.ref
    /\ iteration' = 0
    /\ recent_gaps' = <<>>
    /\ pc' = "enforce"
    /\ UNCHANGED <<inputs, seed, random_state, call, baseline_locals, improve_locals,
                   returned, raised, first_result>>

\* one iteration of enforce_equity's while loop, or the exit after the cap
EquityIteration ==
    /\ pc = "enforce"
    /\ LET plan == heap[equitable]
           metrics == ComputeMetrics(plan, config)
           met_pairs == ComputeMeetingHistory(plan)
           gaps == PushGap(recent_gaps, metrics.equity_gap)
           found == SearchSwap(plan, SwapPriorities(metrics, participants, config.N),
                               1, 1, 1, met_pairs, constraints)
           outcome == EquityOutcome(iteration, ComputeMetricsRaises(plan, config),
                                    metrics.equity_gap, gaps, found.found)
       IN IF outcome = "capped" \/ outcome = "equitable"
          THEN /\ returned' = equitable
               /\ pc' = "metrics"
               /\ UNCHANGED <<heap, recent_gaps, iteration, raised>>
          ELSE IF outcome = "stuck"
          THEN /\ returned' = equitable
               /\ pc' = "metrics"
               /\ recent_gaps' = gaps
               /\ UNCHANGED <<heap, iteration, raised>>
          ELSE IF outcome = "swap"
          THEN /\ heap' = [heap EXCEPT ![equitable] = found.plan]
               /\ recent_gaps' = gaps
               /\ iteration' = iteration + 1
               /\ UNCHANGED <<returned, pc, raised>>
          ELSE /\ raised' = outcome
               /\ pc' = "raised"
               /\ UNCHANGED <<heap, recent_gaps, iteration, returned>>
    /\ UNCHANGED <<inputs, seed, random_state, call, baseline_locals, improve_locals,
                   equitable, first_result>>

\* generate_optimized_planning computes the final metrics and returns
FinalMetrics ==
    /\ pc = "metrics"
    /\ pc' = "done"
    /\ UNCHANGED <<inputs, seed, random_state, call, heap, baseline_locals,
                   improve_locals, iteration, equity_locals, raised, first_result>>

\* the caller keeps the first call's outcome and calls again with the same
\* configuration, constraints and roster, and a seed of its choice
SecondCall ==
    /\ pc \in {"done", "raised", "baseline_done"}
    /\ call = 1
    /\ first_result' = [done |-> TRUE, raised |-> raised, seed |-> seed,
                        plan |-> IF raised # "" THEN <<>>
                                 ELSE IF pc = "baseline_done" THEN PlanSets(heap[baseline])
                                 ELSE PlanSets(heap[returned])]
    /\ call' = 2
    /\ seed' \in Seeds
    /\ pc' = EntryPoint(entry)
    /\ super_participants' = <<>>
    /\ sessions' = <<>>
    /\ placements' = <<>>
    /\ warnings' = {}
    /\ baseline' = 0
    /\ optimized' = 0
    /\ initial_equity_gap' = 0
    /\ iteration' = 0
    /\ plateau_counter' = 0
    /\ sweep_swaps' = 0
    /\ improved' = 0
    /\ equitable' = 0
    /\ recent_gaps' = <<>>
    /\ returned' = 0
    /\ raised' = ""
    /\ UNCHANGED <<inputs, random_state, heap>>

Next ==
    \/ Validate
    \/ BaselineStart
    \/ BaselineRound
    \/ BaselineReturn
    \/ BaselineMetrics
    \/ ImproveStart
    \/ ImproveSweep
    \/ ImproveReturn
    \/ EquityStart
    \/ EquityIteration
    \/ FinalMetrics
    \/ SecondCall

Spec == Init /\ [][Next]_vars

\* ============================================================ properties
\* the member sets of the plans the phases hand over
BaselinePlan == PlanSets(heap[baseline])
ImprovedPlan == PlanSets(heap[improved])
ReturnedPlan == PlanSets(heap[returned])

\* generate_baseline has just returned its plan
BaselineReturned == pc = "baseline_metrics"
\* improve_planning has just returned its plan
ImproveReturned == pc = "equity" /\ optimized # 0
\* generate_optimized_planning has returned its plan
PipelineReturned == pc = "done"

\* max minus min of the per-participant unique-meeting counts of plan object ref
GapOf(ref) == ComputeMetrics(heap[ref], config).equity_gap

\* every round of the plan has pairwise disjoint tables whose union is 0..N-1
RoundsPartition(plan) ==
    \A s \in 1..Len(plan) :
        /\ \A t, u \in 1..Len(plan[s]) : t # u => plan[s][t] \cap plan[s][u] = {}
        /\ UNION {plan[s][t] : t \in 1..Len(plan[s])} = 0..(config.N - 1)

\* in every round of the plan each Together group is inside one table
TogetherKept(plan) ==
    \A s \in 1..Len(plan) : \A i \in 1..Len(constraints.cohesive_groups) :
        \E t \in 1..Len(plan[s]) : constraints.cohesive_groups[i] \subseteq plan[s][t]

\* the table holds at least two members of one Separate group
SeparateShared(members) ==
    \E i \in 1..Len(constraints.exclusive_groups) :
        Cardinality(members \cap constraints.exclusive_groups[i]) >= 2

\* in no round of the plan do two members of a Separate group share a table
SeparateKept(plan) ==
    \A s \in 1..Len(plan) : \A t \in 1..Len(plan[s]) : ~SeparateShared(plan[s][t])

\* the table holds a member of a Separate group that has another member in unit
HoldsRival(members, unit) ==
    \E i \in 1..Len(constraints.exclusive_groups) :
        \E a \in unit \cap constraints.exclusive_groups[i] :
            \E b \in members \cap constraints.exclusive_groups[i] : a # b

\* C1: without constraints, the plan returned by generate_optimized_planning has
\* an equity gap (max minus min unique-meeting count) of at most 1
C1_EquityGapAtMostOne ==
    (PipelineReturned /\ constraints = NoConstraints) => GapOf(returned) <= 1

\* C2: every round of the plan returned by generate_baseline and of the plan
\* returned by generate_optimized_planning has pairwise disjoint tables whose
\* union is exactly 0..N-1, for every accepted configuration and constraint set
C2_RoundsPartition ==
    /\ BaselineReturned => RoundsPartition(BaselinePlan)
    /\ PipelineReturned => RoundsPartition(ReturnedPlan)

\* C3: in every round of the baseline plan, of the plan returned by
\* improve_planning and of the final plan, all members of each Together group
\* sit at the same table
C3_TogetherGroupsShareTable ==
    /\ BaselineReturned => TogetherKept(BaselinePlan)
    /\ ImproveReturned => TogetherKept(ImprovedPlan)
    /\ PipelineReturned => TogetherKept(ReturnedPlan)

\* a plan with a Together group went through the whole pipeline and
\* enforce_equity applied a swap to it
C3_Witness ==
    /\ PipelineReturned
    /\ constraints.cohesive_groups # <<>>
    /\ ReturnedPlan # ImprovedPlan

\* C4: generate_baseline places a unit at a table that already holds another
\* member of one of its Separate groups only when the placement is forced and
\* every one of the X tables holds such a member; and when no placement of the
\* baseline is forced, no two members of a Separate group share a table in any
\* of its rounds
C4_ForcedOnlyWhenAllTablesConflict ==
    /\ \A k \in 1..Len(placements) :
          HoldsRival(placements[k].before[placements[k].table_id + 1], placements[k].sp)
          => /\ placements[k].forced
             /\ \A t \in 1..config.X : HoldsRival(placements[k].before[t], placements[k].sp)
    /\ (BaselineReturned /\ warnings = {}) => SeparateKept(BaselinePlan)

\* in one round a unit was moved away from its round-robin table to avoid a
\* Separate conflict and another unit was placed by force
C4_Witness ==
    /\ \E k \in 1..Len(placements) :
          /\ ~placements[k].forced
          /\ placements[k].table_id # (k - 1) % config.X
    /\ \E k \in 1..Len(placements) : placements[k].forced

\* C5: if no Separate pair shares a table in any round of the plan given to
\* improve_planning (to enforce_equity), none shares a table in any round of
\* the plan it returns
C5_SeparateKeptBySwaps ==
    /\ (ImproveReturned /\ SeparateKept(BaselinePlan)) => SeparateKept(ImprovedPlan)
    /\ (PipelineReturned /\ SeparateKept(ImprovedPlan)) => SeparateKept(ReturnedPlan)

\* with a Separate group and a conflict-free baseline, both phases applied swaps
C5_Witness ==
    /\ PipelineReturned
    /\ constraints.exclusive_groups # <<>>
    /\ SeparateKept(BaselinePlan)
    /\ ImprovedPlan # BaselinePlan
    /\ ReturnedPlan # ImprovedPlan

\* the sizes of the tables of a round
TableSizes(tables) == {Cardinality(tables[t]) : t \in 1..Len(tables)}

\* C6: in every round of the baseline plan the sizes of the largest and the
\* smallest table differ by at most 1, for every accepted configuration and
\* constraint set
C6_BaselineTableSizesBalanced ==
    BaselineReturned =>
        \A s \in 1..Len(BaselinePlan) :
            MaxOf(TableSizes(BaselinePlan[s])) - MinOf(TableSizes(BaselinePlan[s])) <= 1

\* C7: in every round of the baseline plan no table holds more than x participants
C7_BaselineWithinCapacity ==
    BaselineReturned =>
        \A s \in 1..Len(BaselinePlan) : \A t \in 1..Len(BaselinePlan[s]) :
            Cardinality(BaselinePlan[s][t]) <= config.x

SameOutcome ==
    /\ raised = first_result.raised
    /\ raised = "" => ReturnedPlan = first_result.plan

ImproveKeepsInput ==
    pc \in {"improve", "sweep"} => PlanSets(heap'[baseline]) = PlanSets(heap[baseline])
\* a step of enforce_equity leaves the tables of its argument as they are
EquityKeepsInput ==
    pc \in {"equity", "enforce"} => PlanSets(heap'[improved]) = PlanSets(heap[improved])

\* C10: improve_planning and enforce_equity never modify the plan passed to
\* them: during either call every table of every round of the input plan keeps
\* the members it had when the call started
C10_InputPlanNotModified == [][ImproveKeepsInput /\ EquityKeepsInput]_vars

\* both phases applied swaps to their copies, and their inputs are as given
C10_Witness ==
    /\ PipelineReturned
    /\ optimized # 0
    /\ PlanSets(heap[optimized]) # BaselinePlan
    /\ PlanSets(heap[equitable]) # ImprovedPlan
    /\ BaselinePlan = PlanSets(sessions)

\* the arguments evaluate_swap may be called with on the plan: a round, two
\* distinct tables and two participants, seated at the stated tables or not
SwapArguments(plan) ==
    {a \in (0..(Len(plan) - 1)) \X (0..(config.X - 1)) \X (0..(config.N - 1))
           \X (0..(config.X - 1)) \X (0..(config.N - 1)) : a[2] # a[4]}

NoPlanConstructed ==
    /\ heap = <<>>
    /\ sessions = <<>>
    /\ baseline = 0
    /\ returned = 0

\* C13: when N < 2, X < 1, x < 2, S < 1 or X * x < N, generate_baseline and
\* generate_optimized_planning raise a configuration error and construct no plan:
\* the call never gets past its validation, and it ends with that error
C13_InvalidConfigurationRaises ==
    (\/ config.N < 2
     \/ config.X < 1
     \/ config.x < 2
     \/ config.S < 1
     \/ config.X * config.x < config.N) =>
        /\ pc \in {EntryPoint(entry), "raised"}
        /\ pc = "raised" => raised = "InvalidConfigurationError"
        /\ NoPlanConstructed

\* generate_baseline has raised for a configuration whose only defect is the
\* total capacity
C13_Witness ==
    /\ entry = "generate_baseline"
    /\ pc = "raised"
    /\ raised = "InvalidConfigurationError"
    /\ config.N >= 2 /\ config.X >= 1 /\ config.x >= 2 /\ config.S >= 1
    /\ config.X * config.x < config.N

\* the three defects of a constraint set, as the specification lists them
TogetherTooLarge ==
    \E i \in DOMAIN constraints.cohesive_groups :
        Cardinality(constraints.cohesive_groups[i]) > config.x
InSeveralTogetherGroups ==
    \E i, j \in DOMAIN constraints.cohesive_groups :
        /\ i # j
        /\ \E p \in constraints.cohesive_groups[i] : p \in constraints.cohesive_groups[j]
TogetherAndSeparate ==
    \E i \in DOMAIN constraints.cohesive_groups :
        \E j \in DOMAIN constraints.exclusive_groups :
            \E p, q \in constraints.cohesive_groups[i] :
                /\ p # q
                /\ {p, q} \subseteq constraints.exclusive_groups[j]

\* C14: when a Together group is larger than x, a participant is in more than
\* one Together group, or a Together and a Separate group share two
\* participants, generate_baseline and generate_optimized_planning raise an
\* error before any round is generated and return no plan
C14_InvalidConstraintsRaise ==
    (TogetherTooLarge \/ InSeveralTogetherGroups \/ TogetherAndSeparate) =>
        /\ pc \in {EntryPoint(entry), "raised"}
        /\ pc = "raised" => raised = "InvalidConfigurationError"
        /\ NoPlanConstructed

\* a call with a valid configuration has raised because one participant is in
\* two Together groups, the only defect of the constraint set
C14_Witness ==
    /\ pc = "raised"
    /\ validate_config(config) = ""
    /\ InSeveralTogetherGroups
    /\ ~TogetherTooLarge
    /\ ~TogetherAndSeparate

\* the rounds of the plan in which participants p and q share a table
RoundsShared(plan, p, q) ==
    {s \in 1..Len(plan) : \E t \in 1..Len(plan[s]) : {p, q} \subseteq plan[s][t]}

\* the metrics as the specification defines them, counted over the member sets
MetricsAsSpecified(ref) ==
    LET plan == PlanSets(heap[ref])
        ids == 0..(config.N - 1)
        couples == {{p, q} : p \in ids, q \in ids} \ {{p} : p \in ids}
        shared(c) == LET p == CHOOSE p \in c : TRUE
                         q == CHOOSE q \in c : q # p
                     IN RoundsShared(plan, p, q)
        met(p) == {q \in ids \ {p} : RoundsShared(plan, p, q) # {}}
        counts == {Cardinality(met(p)) : p \in ids}
        m == ComputeMetrics(heap[ref], config)
    IN /\ m.total_unique_pairs = Cardinality({c \in couples : shared(c) # {}})
       /\ m.total_repeat_pairs = Cardinality({c \in couples : Cardinality(shared(c)) > 1})
       /\ \A p \in ids : m.unique_meetings_per_person[p] = Cardinality(met(p))
       /\ m.equity_gap = MaxOf(counts) - MinOf(counts)

\* C15: compute_metrics counts as unique pairs the pairs that share a table in at
\* least one round, as repeated pairs those that share a table in more than one
\* round, per participant the distinct co-attendees, and as equity gap the
\* largest minus the smallest of these counts, on each of the three plans the
\* pipeline measures; for N = 2, X = 1, x = 2, S = 1 that is 1 unique pair, no
\* repeated pair and a gap of 0
C15_MetricsCountPairs ==
    pc = "done" =>
        /\ MetricsAsSpecified(baseline)
        /\ MetricsAsSpecified(improved)
        /\ MetricsAsSpecified(returned)
        /\ config = [N |-> 2, X |-> 1, x |-> 2, S |-> 1] =>
               LET m == ComputeMetrics(heap[returned], config)
               IN /\ m.total_unique_pairs = 1
                  /\ m.total_repeat_pairs = 0
                  /\ m.equity_gap = 0

\* the pipeline returned a plan with a repeated pair, a pair that never met and
\* unequal counts
C15_Witness ==
    /\ pc = "done"
    /\ LET m == ComputeMetrics(heap[returned], config)
       IN /\ m.total_repeat_pairs > 0
          /\ m.total_unique_pairs > m.total_repeat_pairs
          /\ 2 * m.total_unique_pairs < config.N * (config.N - 1)
          /\ m.equity_gap > 0

\* C16: generate_baseline called on the same configuration with two different
\* seeds returns two plans that differ in at least one table
C16_DifferentSeedsDifferentPlans ==
    (/\ entry = "generate_baseline"
     /\ call = 2
     /\ pc = "baseline_done"
     /\ first_result.raised = ""
     /\ seed # first_result.seed) =>
        \E s \in 1..Len(BaselinePlan) : \E t \in 1..Len(BaselinePlan[s]) :
            BaselinePlan[s][t] # first_result.plan[s][t]

\* the pairs of participants that share a table in more than one round of plan
\* object ref
RepeatedPairs(ref) ==
    {c \in SUBSET (0..(config.N - 1)) :
        /\ Cardinality(c) = 2
        /\ Cardinality({s \in 1..Len(heap[ref]) :
               \E t \in 1..Len(heap[ref][s]) : c \subseteq Members(heap[ref][s][t])}) > 1}

\* C18: the plan returned by improve_planning has no more repeated pairs than
\* its input plan
C18_ImproveNeverAddsRepeats ==
    ImproveReturned =>
        Cardinality(RepeatedPairs(improved)) <= Cardinality(RepeatedPairs(baseline))

\* enforce_equity has just returned its plan
EquityReturned == pc = "metrics"

\* C17: the equity gap of the plan returned by enforce_equity is at most the
\* equity gap of its input plan
C17_EnforceNeverWidensGap ==
    EquityReturned => GapOf(returned) <= GapOf(improved)

\* enforce_equity returned because its oscillation test succeeded
StoppedOnOscillation ==
    /\ EquityReturned
    /\ GapOf(returned) > 1
    /\ Len(recent_gaps) >= 10
    /\ Cardinality(SeqRange(recent_gaps)) <= 2
    /\ Cardinality({i \in 1..Len(recent_gaps) : recent_gaps[i] = recent_gaps[1]}) >= 3

\* C19: when enforce_equity stops on oscillation, the plan it returns has the
\* smallest equity gap among all the plans it held during the call; stated for
\* the calls that applied fewer than 10 swaps, where recent_gaps still holds the
\* gap of every plan held
C19_OscillationReturnsBestPlan ==
    (StoppedOnOscillation /\ Len(recent_gaps) = iteration + 1) =>
        \A i \in 1..Len(recent_gaps) : GapOf(returned) <= recent_gaps[i]

\* the gaps recorded once the gap of the plan held has been appended
RecordedGaps == PushGap(recent_gaps, GapOf(equitable))

\* the number of times value v occurs among the gaps g
Occurrences(g, v) == Cardinality({i \in 1..Len(g) : g[i] = v})

\* enforce_equity is in its loop, holding a plan whose gap is above 1
Recording == pc = "enforce" /\ GapOf(equitable) > 1

\* this pass returns the plan held without applying a swap
StopsWithoutSwap ==
    /\ pc' = "metrics"
    /\ returned' = equitable
    /\ heap' = heap

C21_PlateauStopsLocalSearch ==
    [][pc = "sweep" =>
          \/ /\ pc' = "sweep"
             /\ plateau_counter < 5
             /\ iteration < (IF config.N < 20 THEN 50 ELSE 20)
             /\ iteration' = iteration + 1
             /\ sweep_swaps' > 0 <=> heap'[optimized] # heap[optimized]
             /\ plateau_counter' = IF sweep_swaps' > 0 THEN 0 ELSE plateau_counter + 1
          \/ /\ pc' = "equity"
             /\ \/ plateau_counter = 5
                \/ iteration = (IF config.N < 20 THEN 50 ELSE 20)]_vars

\* improve_planning stopped on the plateau before its budget was spent, after a
\* sweep that applied swaps had reset the count
C21_Witness ==
    /\ ImproveReturned
    /\ plateau_counter = 5
    /\ iteration > 5
    /\ iteration < MaxIter(config)

\* the positions of the pipeline, in the order of its phases
PhaseOrder ==
    <<"validate", "baseline", "rounds", "baseline_metrics", "improve", "sweep",
      "equity", "enforce", "metrics", "done">>

PhaseIndex(p) == CHOOSE i \in 1..Len(PhaseOrder) : PhaseOrder[i] = p

\* C22: generate_optimized_planning runs configuration and constraint
\* validation, baseline generation, local search, equity enforcement and final
\* metrics in that order, each phase following the previous one; local search is
\* entered if and only if N < 50, and for N >= 50 the baseline plan object is
\* handed unchanged to equity enforcement
C22_PhasesInOrder ==
    [][(entry = "generate_optimized_planning" /\ pc' # pc /\ call' = call
            /\ pc' # "raised") =>
          /\ PhaseIndex(pc') > PhaseIndex(pc)
          /\ \/ PhaseIndex(pc') = PhaseIndex(pc) + 1
             \/ pc = "baseline_metrics" /\ pc' = "equity"
          /\ pc' = "improve" => config.N < 50
          /\ (pc = "baseline_metrics" /\ pc' = "equity") =>
                /\ config.N >= 50
                /\ improved' = baseline
                /\ heap' = heap
          /\ pc' = "enforce" => PlanSets(heap'[equitable']) = PlanSets(heap[improved])]_vars

\* the pipeline finished for 50 participants without entering local search
C22_Witness ==
    /\ PipelineReturned
    /\ config.N >= 50
    /\ optimized = 0
    /\ improved = baseline

\* the participants whose table changes in this step of enforce_equity
Moved ==
    {p \in 0..(config.N - 1) :
        \E s \in 1..Len(heap[equitable]) :
            TableOf(heap[equitable][s], p) # TableOf(heap'[equitable][s], p)}

\* enforce_equity would apply a swap for the pair (under, over) on the plan held
Applicable(under, over) ==
    TrySwapParticipants(heap[equitable], over, under,
                        ComputeMeetingHistory(heap[equitable]), constraints).found

\* C23: in an iteration of enforce_equity with a roster, when the VIP advantage
\* is below vip_max_advantage and an under-exposed participant is VIP, a swap for
\* an under-exposed non-VIP is applied only if no pair (under-exposed VIP,
\* over-exposed participant) has an applicable swap, and a swap against an
\* over-exposed VIP only if no pair (under-exposed VIP, over-exposed non-VIP)
\* has one; when the advantage is 2 or more the first applicable pair in the
\* order of the ids is taken, whoever is VIP
C23_VipPriority ==
    [][(pc = "enforce" /\ pc' = "enforce" /\ participants.given) =>
          LET upp == ComputeMetrics(heap[equitable], config).unique_meetings_per_person
              ids == 0..(config.N - 1)
              vip == participants.vip_ids
              least == MinOf({upp[p] : p \in ids})
              most == MaxOf({upp[p] : p \in ids})
              under == {p \in ids : upp[p] = least}
              over == {p \in ids : upp[p] = most}
              advantage == MinOf({upp[p] : p \in vip}) - MinOf({upp[p] : p \in ids \ vip})
              u == CHOOSE p \in Moved : p \in under
              o == CHOOSE p \in Moved : p \in over
          IN /\ Cardinality(Moved) = 2
             /\ Moved \cap under # {}
             /\ Moved \cap over # {}
             /\ (vip # {} /\ vip # ids) =>
                   IF advantage < 2
                   THEN under \cap vip # {} =>
                          /\ u \notin vip =>
                                \A uv \in under \cap vip : \A ov \in over :
                                    ~Applicable(uv, ov)
                          /\ o \in vip =>
                                \A uv \in under \cap vip : \A ov \in over \ vip :
                                    ~Applicable(uv, ov)
                   ELSE \A u2 \in under : \A o2 \in over :
                            (u2 < u \/ (u2 = u /\ o2 < o)) => ~Applicable(u2, o2)]_vars

\* enforce_equity has applied its first swap, for an under-exposed VIP, although
\* an under-exposed non-VIP of smaller id had an applicable swap too
C23_Witness ==
    /\ pc = "enforce"
    /\ iteration = 1
    /\ participants.given
    /\ LET before == heap[improved]
           upp == ComputeMetrics(before, config).unique_meetings_per_person
           ids == 0..(config.N - 1)
           vip == participants.vip_ids
           least == MinOf({upp[p] : p \in ids})
           most == MaxOf({upp[p] : p \in ids})
       IN \E v \in vip : \E r \in ids \ vip :
            /\ upp[v] = least
            /\ upp[r] = least
            /\ r < v
            /\ \E s \in 1..Len(before) :
                   TableOf(before[s], v) # TableOf(heap[equitable][s], v)
            /\ \E o \in ids :
                   /\ upp[o] = most
                   /\ TrySwapParticipants(before, o, r, ComputeMeetingHistory(before),
                                          constraints).found

\* generate_baseline has just returned a plan built without constraints
UnconstrainedBaseline ==
    /\ pc \in {"baseline_done", "baseline_metrics"}
    /\ constraints = NoConstraints

\* C24: without constraints, in round r participant i is seated at table
\* ((i - stride) mod N) mod X with stride = (17 * r + 1) mod N, and nowhere else
C24_SeatFormula ==
    UnconstrainedBaseline =>
        \A r \in 0..(config.S - 1) : \A i \in 0..(config.N - 1) : \A t \in 0..(config.X - 1) :
            LET stride == (17 * r + 1) % config.N
            IN i \in Members(heap[baseline][r + 1][t + 1])
                   <=> t = ((i - stride) % config.N) % config.X

\* an unconstrained baseline of 8 participants at 3 tables whose second round is
\* rotated by 18 mod 8 = 2: participant 2 opens table 0 and participant 1 closes
\* table 1
C24_Witness ==
    /\ UnconstrainedBaseline
    /\ config.N = 8
    /\ config.X = 3
    /\ config.S = 2
    /\ TableOf(heap[baseline][2], 2) = 0
    /\ TableOf(heap[baseline][2], 1) = 1

\* C25: for every valid configuration without constraints with at least 2 tables
\* and at least 2 rounds, round 1 of the baseline differs from round 0 in at
\* least one table index
C25_SecondRoundDiffers ==
    (UnconstrainedBaseline /\ config.X >= 2 /\ config.S >= 2) =>
        \E t \in 1..config.X :
            Members(heap[baseline][1][t]) # Members(heap[baseline][2][t])

\* plan p has the rounds of plan q: as many rounds, in each round as many tables,
\* each table as large, and each round seating the same participants
SameShape(p, q) ==
    /\ Len(p) = Len(q)
    /\ \A s \in 1..Len(p) :
          /\ Len(p[s]) = Len(q[s])
          /\ \A t \in 1..Len(p[s]) : Used(p[s][t]) = Used(q[s][t])
          /\ UNION {Members(p[s][t]) : t \in 1..Len(p[s])}
                 = UNION {Members(q[s][t]) : t \in 1..Len(q[s])}

\* the participants seated at another table of round s after the step
MovedIn(ref, s) ==
    {p \in 0..(config.N - 1) : TableOf(heap[ref][s], p) # TableOf(heap'[ref][s], p)}

\* C26: every swap applied by improve_planning or enforce_equity exchanges one
\* participant of a table with one participant of another table of the same
\* round, so the working plan after every sweep and every swap, and the plan
\* returned, have the rounds, the tables, the table sizes and the participants
\* per round of the plan that was passed in
C26_SwapsPreserveShape ==
    [][/\ pc' = "sweep" => SameShape(heap'[optimized'], heap'[baseline'])
       /\ (pc = "sweep" /\ pc' = "equity") =>
             SameShape(heap'[improved'], heap'[baseline'])
       /\ pc' \in {"enforce", "metrics"} =>
             SameShape(heap'[equitable'], heap'[improved'])
       /\ pc' = "metrics" => returned' = equitable'
       /\ (pc = "enforce" /\ pc' = "enforce") =>
             \E s \in 1..Len(heap[equitable]) : \E a, b \in 0..(config.N - 1) :
                 /\ a # b
                 /\ MovedIn(equitable, s) = {a, b}
                 /\ TableOf(heap'[equitable][s], a) = TableOf(heap[equitable][s], b)
                 /\ TableOf(heap'[equitable][s], b) = TableOf(heap[equitable][s], a)
                 /\ \A r \in 1..Len(heap[equitable]) :
                        r # s => heap'[equitable][r] = heap[equitable][r]]_vars

\* the pipeline has returned a plan in which local search and equity enforcement
\* have both moved participants
C26_Witness ==
    /\ PipelineReturned
    /\ improved = optimized
    /\ PlanSets(heap[improved]) # PlanSets(heap[baseline])
    /\ PlanSets(heap[returned]) # PlanSets(heap[improved])

\* the calls evaluate_swap(plan, s, t1, p1, t2, p2, met_pairs) in which p1 and p2
\* are seated at the distinct tables t1 and t2 of round s, t1 before t2 as in
\* the loops of _improve_session; sets holds the member sets of the tables
SwapCalls(sets) ==
    UNION {UNION {UNION {{<<s - 1, t1 - 1, p1, t2 - 1, p2>> : p1 \in sets[s][t1], p2 \in sets[s][t2]}
                         : t2 \in (t1 + 1)..Len(sets[s])}
                  : t1 \in 1..Len(sets[s])}
           : s \in 1..Len(sets)}

\* the swap of call c would seat together two participants who share no table in
\* any round of the plan
SeatsNewPair(sets, c) ==
    LET table1 == sets[c[1] + 1][c[2] + 1]
        table2 == sets[c[1] + 1][c[4] + 1]
    IN \/ \E q \in table1 \ {c[3]} : RoundsShared(sets, q, c[5]) = {}
       \/ \E q \in table2 \ {c[5]} : RoundsShared(sets, q, c[3]) = {}

\* C27: when met_pairs is the meeting history of the plan itself and p1, p2 are
\* seated at the two distinct stated tables, evaluate_swap never returns a
\* positive delta, and it returns a negative delta exactly when the swap would
\* seat together a pair that shares no table in any round of the plan
C27_DeltaOnOwnHistory ==
    pc = "sweep" =>
        LET plan == heap[optimized]
            sets == PlanSets(plan)
            met_pairs == ComputeMeetingHistory(plan)
        IN \A c \in SwapCalls(sets) :
              LET delta == EvaluateSwap(plan, c[1], c[2], c[3], c[4], c[5], met_pairs)
              IN /\ ~EvaluateSwapRaises(plan, c[1], c[2], c[3], c[4], c[5])
                 /\ delta <= 0
                 /\ delta < 0 <=> SeatsNewPair(sets, c)

\* improve_planning starts a sweep on a plan in which one swap has a negative
\* delta and another has delta 0
C27_Witness ==
    /\ pc = "sweep"
    /\ LET plan == heap[optimized]
           met_pairs == ComputeMeetingHistory(plan)
       IN /\ \E c \in SwapCalls(PlanSets(plan)) :
                 EvaluateSwap(plan, c[1], c[2], c[3], c[4], c[5], met_pairs) < 0
          /\ \E c \in SwapCalls(PlanSets(plan)) :
                 EvaluateSwap(plan, c[1], c[2], c[3], c[4], c[5], met_pairs) = 0

\* the swap evaluations an iteration of enforce_equity can make on the plan it
\* holds: <<round, under-exposed participant, over-exposed participant>>, the two
\* seated at different tables of the round
EquityEvaluations ==
    LET plan == heap[equitable]
        metrics == ComputeMetrics(plan, config)
    IN IF metrics.equity_gap <= 1 THEN {}
       ELSE {e \in (0..(Len(plan) - 1)) \X SeqRange(FindUnderExposed(metrics))
                       \X SeqRange(FindOverExposed(metrics)) :
                /\ TableOf(plan[e[1] + 1], e[2]) # -1
                /\ TableOf(plan[e[1] + 1], e[3]) # -1
                /\ TableOf(plan[e[1] + 1], e[2]) # TableOf(plan[e[1] + 1], e[3])}

\* the participants of the set who share no table with p in any round of the plan
NeverMet(plan, p, others) ==
    {q \in others : q # p /\ RoundsShared(PlanSets(plan), p, q) = {}}

\* C28: in every swap evaluation made by enforce_equity the two 'unique lost'
\* terms are 0, and the improvement score is the number of participants at the
\* over-exposed participant's table whom the under-exposed participant has never
\* met, minus the number of participants at the under-exposed participant's
\* table whom the over-exposed participant has never met
C28_EquityScore ==
    pc = "enforce" =>
        LET plan == heap[equitable]
            met_pairs == ComputeMeetingHistory(plan)
        IN \A e \in EquityEvaluations :
              LET tables == plan[e[1] + 1]
                  table_under_id == TableOf(tables, e[2])
                  table_over_id == TableOf(tables, e[3])
                  lost == UniqueLost(tables, table_over_id, e[3], table_under_id, e[2],
                                     met_pairs)
              IN /\ lost.over = 0
                 /\ lost.under = 0
                 /\ EquityImprovement(tables, table_over_id, e[3], table_under_id, e[2],
                                      met_pairs)
                      = Cardinality(NeverMet(plan, e[2], Members(tables[table_over_id + 1])))
                        - Cardinality(NeverMet(plan, e[3], Members(tables[table_under_id + 1])))

\* enforce_equity holds a plan with a gap above 1 in which one evaluation has a
\* positive score and another a negative one
C28_Witness ==
    /\ pc = "enforce"
    /\ LET plan == heap[equitable]
           met_pairs == ComputeMeetingHistory(plan)
           Score(e) == EquityImprovement(plan[e[1] + 1], TableOf(plan[e[1] + 1], e[3]), e[3],
                                         TableOf(plan[e[1] + 1], e[2]), e[2], met_pairs)
       IN /\ \E e \in EquityEvaluations : Score(e) > 0
          /\ \E e \in EquityEvaluations : Score(e) < 0

\* participants p and q share a table in round s of the baseline
TogetherInBaseline(s, p, q) ==
    \E t \in 1..Len(heap[baseline][s]) : {p, q} \subseteq Members(heap[baseline][s][t])

\* C29: without constraints, when N is a multiple of X, every round of the
\* baseline seats together exactly the participants with equal id modulo X, so
\* two participants who are apart in round 0 meet in no round of the baseline
C29_SamePartitionEveryRound ==
    (UnconstrainedBaseline /\ config.X >= 1 /\ config.N % config.X = 0) =>
        \A s \in 1..Len(heap[baseline]) : \A p, q \in 0..(config.N - 1) :
            /\ TogetherInBaseline(s, p, q) <=> p % config.X = q % config.X
            /\ ~TogetherInBaseline(1, p, q) => ~TogetherInBaseline(s, p, q)

\* an unconstrained baseline of two rounds with N a multiple of X >= 2 in which
\* the groups sit at other table indices in round 1 than in round 0
C29_Witness ==
    /\ UnconstrainedBaseline
    /\ config.X >= 2
    /\ config.N >= 2 * config.X
    /\ config.N % config.X = 0
    /\ config.S = 2
    /\ TableOf(heap[baseline][1], 0) # TableOf(heap[baseline][2], 0)

\* C30: in improve_planning, once a sweep over all rounds has applied no swap,
\* every later sweep of the call applies none and leaves the working plan as it
\* is, until the call ends by plateau or by exhausting its iterations
C30_NoSwapAfterIdleSweep ==
    [][(pc = "sweep" /\ iteration > 0 /\ sweep_swaps = 0) =>
          \/ /\ pc' = "sweep"
             /\ sweep_swaps' = 0
             /\ heap'[optimized] = heap[optimized]
             /\ plateau_counter' = plateau_counter + 1
          \/ /\ pc' = "equity"
             /\ heap' = heap
             /\ \/ plateau_counter >= plateau_threshold
                \/ iteration >= MaxIter(config)]_vars

\* the third sweep in a row without a swap, on a working plan that an earlier
\* sweep has changed
C30_Witness ==
    /\ pc = "sweep"
    /\ sweep_swaps = 0
    /\ plateau_counter = 3
    /\ iteration > plateau_counter
    /\ PlanSets(heap[optimized]) # PlanSets(heap[baseline])
====
